---- MODULE Spec2Model ----
(***************************************************************************)
(* Token-statistics endpoint of soba-api: the cache slot, the concurrent   *)
(* request handlers and the refresh pipeline of four server revisions.     *)
(*                                                                         *)
(*   "src_server"  src/src/server.ts     node-cache, validating handler    *)
(*   "part_011"    src/unnamed/part_011  node-cache, no validation         *)
(*   "part_010"    src/unnamed/part_010  cache object, Solana Tracker      *)
(*   "dist_server" src/dist/server.js    cache object, Helius holders,     *)
(*                                       round-robin RPC connection        *)
(*                                                                         *)
(* Time is counted in ticks of one time-to-live of the revision modelled:  *)
(* 60 s (stdTTL) for the node-cache revisions, 30000 ms (cache.TTL) for    *)
(* the cache-object revisions.  Token amounts are whole tokens (after      *)
(* decimal scaling).  An async handler is split at its awaits: one action  *)
(* per synchronous stretch of code.                                        *)
(***************************************************************************)
EXTENDS Integers, FiniteSets, Sequences, TLC

\* ---------------------------------------------------------------- bounds
NumReqs ==
  2
MaxTime ==
  2
MaxAmount ==
  2
MaxPrice ==
  1
MaxHolders ==
  1
\* token accounts held by the indexing service, and distinct owners among them
MaxAccounts ==
  4
NumOwners ==
  2
\* token accounts of one wallet, their raw amounts and the decimals of the mint
MaxWalletAccounts ==
  2
MaxRaw ==
  2
MaxDecimals ==
  1
\* the largest retry setting of a call through axiosWithRetry
\* largest file size of an upload, in half megabytes
MaxSize ==
  11
\* uploads followed through the meme list
MaxUploads ==
  3
\* invocations of fetchTokenHolders followed for one holders fetch
MaxCalls ==
  4
MaxRetry ==
  3

\* ------------------------------------------------------ program constants
\* new NodeCache({ stdTTL: 60 }): 60 s = 1 tick of the node-cache revisions
stdTTL ==
  1
\* cache.TTL: 30000 ms = 1 tick of the cache-object revisions
TTL ==
  1
\* SOLANA_RPC_ENDPOINTS.length (src/src/server.ts)
NumSupplyEndpoints ==
  3
\* RPC_ENDPOINTS.length without CUSTOM_RPC_URL (src/dist/server.js)
NumRpcEndpoints ==
  3
\* supply substituted by part_010 when the supply request fails (996758135.0228987)
DefaultSupply ==
  996758135
\* founderBalance written by part_010 into every snapshot
HardcodedFounderBalance ==
  260660000

\* limit: 1000 of getTokenAccounts, the page size, scaled to 2 accounts a page
limit ==
  2

\* config.retryDelay || 1000, in seconds
DefaultRetryDelay ==
  1
\* retry: 3 of the calls of the handlers (part_010, src/server.ts)
\* limits.fileSize of the upload routes, 5 * 1024 * 1024 bytes, in half
\* megabytes
FileSizeLimit ==
  10
\* limits.fileSize of the blob-only route, 4.5 * 1024 * 1024 bytes
BlobUploadLimit ==
  9
\* retry: 2 of the holders request
HoldersRetry ==
  2
ConfiguredRetry ==
  3

Reqs ==
  1..NumReqs
Variants ==
  {"src_server", "part_011", "part_010", "dist_server"}
NodeCacheVariants ==
  {"src_server", "part_011"}
\* a rejected external call; a malformed payload; a value not yet settled
Fail ==
  -1
Invalid ==
  -2
Pending ==
  -3
\* null / undefined object
NoData ==
  [none |-> TRUE]
\* absent number and absent string of a response body
Absent ==
  -1
NoText ==
  ""
Amounts ==
  0..MaxAmount
Prices ==
  1..MaxPrice
HolderCounts ==
  1..MaxHolders
\* what one external source answers: a value, or Fail (rejected, timed out, malformed)
Outcome(S) ==
  S \cup {Fail}
RpcIdx ==
  0..(NumRpcEndpoints - 1)

VARIABLES variant, now, statsCache, cache, req, lastResp, lastStored,
          solanaConnection, currentRpcIndex

\* the holder enumeration: the token accounts the indexing service holds, the
\* page whose request fails (0: none), and the state of the enumerator's loop
VARIABLES upstream, failAt, page, uniqueOwners, hpc, requests, holdersResult

\* the balance resolution of one wallet: the token accounts the service
\* answers for the wallet and the balance returned
VARIABLES walletAccounts, balancePc, walletBalance

\* one external call through an HTTP client: the config the caller passed,
\* config.retry as the interceptor has left it, the state of the call, the
\* attempts sent, the back-off delays waited, the outcome of the last attempt,
\* and whether the call is still unanswered after its time limit
VARIABLES config, retryLeft, phase, attempts, waited, failure, overdue

\* the parallel fetches of one refresh, each idle, inflight, fulfilled or
\* rejected, and the answer the handler has sent for the request
VARIABLES fetches, joinResp
\* one request to the meme upload route: the file it carries, how far the
\* middleware chain has run, the status answered, what the request has left
\* in storage and which storage operations were performed for it
VARIABLES upFile, upPc, upStatus, asset, memeRecord, ops

\* the meme list: the backing store (JSON file or collection), the copy the
\* process keeps in memory, the list the last GET returned, the next record
\* id and the last answer of the meme routes
VARIABLES memesFile, memes, listResp, nextId, memeAnswer

\* one failing request: process.env.NODE_ENV, the message of the error that
\* was thrown, how far the error path has run, and the body answered
VARIABLES nodeEnv, thrown, errPc, errorBody

\* one holders fetch through fetchTokenHolders: the invocations made so far,
\* config.retry of the current request, the position, the last failure and
\* the value returned
VARIABLES holdersCalls, holdersRetry, holdersPc, holdersFailure, holdersReturn

\* one call of getWorkingConnection, probe by probe: the endpoints probed by
\* the loop with the outcome of each, the loop counter, the position and the
\* connection returned
VARIABLES probed, loopIdx, connPc, connResult

serverVars ==
  <<variant, now, statsCache, cache, req, lastResp, lastStored,
    solanaConnection, currentRpcIndex>>
\* the handlers' state apart from the remembered connection
serverRestVars ==
  <<variant, now, statsCache, cache, req, lastResp, lastStored>>
holderVars ==
  <<upstream, failAt, page, uniqueOwners, hpc, requests, holdersResult>>
balanceVars ==
  <<walletAccounts, balancePc, walletBalance>>
\* the state of the components other than the request handlers and the
\* holder enumeration
callVars ==
  <<config, retryLeft, phase, attempts, waited, failure, overdue>>
joinVars ==
  <<fetches, joinResp>>
uploadVars ==
  <<upFile, upPc, upStatus, asset, memeRecord, ops>>
listVars ==
  <<memesFile, memes, listResp, nextId, memeAnswer>>
errorVars ==
  <<nodeEnv, thrown, errPc, errorBody>>
trackerVars ==
  <<holdersCalls, holdersRetry, holdersPc, holdersFailure, holdersReturn>>
connVars ==
  <<probed, loopIdx, connPc, connResult>>
toolVars ==
  <<balanceVars, callVars, joinVars, uploadVars, listVars, errorVars, trackerVars, connVars>>
notBalanceVars ==
  <<serverVars, holderVars, callVars, joinVars, uploadVars, listVars, errorVars, trackerVars, connVars>>
notCallVars ==
  <<serverVars, holderVars, balanceVars, joinVars, uploadVars, listVars, errorVars, trackerVars, connVars>>
notJoinVars ==
  <<serverVars, holderVars, balanceVars, callVars, uploadVars, listVars, errorVars, trackerVars, connVars>>
notUploadVars ==
  <<serverVars, holderVars, balanceVars, callVars, joinVars, listVars, errorVars, trackerVars, connVars>>
notListVars ==
  <<serverVars, holderVars, balanceVars, callVars, joinVars, uploadVars, errorVars, trackerVars, connVars>>
notErrorVars ==
  <<serverVars, holderVars, balanceVars, callVars, joinVars, uploadVars, listVars, trackerVars, connVars>>
notTrackerVars ==
  <<serverVars, holderVars, balanceVars, callVars, joinVars, uploadVars, listVars, errorVars, connVars>>
notConnVars ==
  <<serverVars, holderVars, balanceVars, callVars, joinVars, uploadVars, listVars, errorVars, trackerVars>>
\* every component but the handlers and getWorkingConnection
notConnVarsButServer ==
  <<balanceVars, callVars, joinVars, uploadVars, listVars, errorVars, trackerVars>>
vars ==
  <<variant, now, statsCache, cache, req, lastResp, lastStored,
    solanaConnection, currentRpcIndex,
    upstream, failAt, page, uniqueOwners, hpc, requests, holdersResult,
    walletAccounts, balancePc, walletBalance,
    config, retryLeft, phase, attempts, waited, failure, overdue,
    fetches, joinResp,
    upFile, upPc, upStatus, asset, memeRecord, ops,
    memesFile, memes, listResp, nextId, memeAnswer,
    nodeEnv, thrown, errPc, errorBody,
    holdersCalls, holdersRetry, holdersPc, holdersFailure, holdersReturn,
    probed, loopIdx, connPc, connResult>>

\* ---------------------------------------------------------------- helpers
Max(a, b) ==
  IF a >= b THEN a ELSE b
Abs(a) ==
  IF a >= 0 THEN a ELSE -a
\* x || d
OrElse(x, d) ==
  IF x <= 0 THEN d ELSE x

IdleReq ==
  [pc |-> "idle", now0 |-> 0, supply |-> Pending, calls |-> {}]
\* no response was sent by the last step
NoResp ==
  [req |-> 0, status |-> 0, stats |-> NoData, cached |-> FALSE, cacheAge |-> Absent,
   error |-> NoText, message |-> NoText, calls |-> {}]
EmptyStatsCache ==
  [data |-> NoData, t |-> 0]
EmptyCache ==
  [data |-> NoData, timestamp |-> 0]

\* ------------------------------------------------------------- node-cache
\* _check: an entry is expired when data.t < Date.now()
IsExpiredAtSetTime(c, t) ==
  c.t - stdTTL < t
IsExpired(c, t) ==
  c.t < t
\* statsCache.get(key): the value, or undefined (and the entry deleted) when expired
NodeCacheGet(c, t) ==
  IF c.data # NoData /\ ~IsExpired(c, t) THEN c.data ELSE NoData
NodeCacheAfterGet(c, t) ==
  IF c.data # NoData /\ IsExpired(c, t) THEN EmptyStatsCache ELSE c
\* statsCache.set(key, value): t = Date.now() + stdTTL
NodeCacheSet(value, t) ==
  [data |-> value, t |-> t + stdTTL]

\* ------------------------------------------------------------ cache object
\* cache.data && (now - cache.timestamp) < cache.TTL
CacheFresh(c, t) ==
  c.data # NoData /\ (t - c.timestamp) < TTL

\* ------------------------------------------------- src/src/server.ts stats
\* first endpoint that answers a valid amount, in list order; Fail if none
RECURSIVE FirstValidSupply(_, _)
FirstValidSupply(outs, i) ==
  IF i > NumSupplyEndpoints THEN Fail
  ELSE IF outs[i] \in Amounts THEN outs[i]
  ELSE FirstValidSupply(outs, i + 1)
\* getTokenSupply: RPC value, else cachedStats.totalSupply if truthy, else 0
getTokenSupply(outs, c, t) ==
  LET rpc == FirstValidSupply(outs, 1)
      cachedStats == NodeCacheGet(c, t)
  IN IF rpc # Fail THEN rpc
     ELSE IF cachedStats # NoData /\ cachedStats.totalSupply # 0 THEN cachedStats.totalSupply
     ELSE 0
\* validation of the handler: the message of the Error thrown, NoText if none
ValidationErrorNoSumCheck(totalSupply, founderHoldings, burnWalletBalance) ==
  IF totalSupply <= 0 THEN "Invalid total supply"
  ELSE IF founderHoldings > totalSupply THEN "Founder balance exceeds total supply"
  ELSE IF burnWalletBalance > totalSupply THEN "Burn wallet balance exceeds total supply"
  ELSE NoText
ValidationErrorNoFounderCheck(totalSupply, founderHoldings, burnWalletBalance) ==
  LET circulatingSupply == Max(0, totalSupply - founderHoldings - burnWalletBalance)
      totalHoldings == founderHoldings + burnWalletBalance + circulatingSupply
  IN IF totalSupply <= 0 THEN "Invalid total supply"
     ELSE IF burnWalletBalance > totalSupply THEN "Burn wallet balance exceeds total supply"
     ELSE IF circulatingSupply > totalSupply THEN "Circulating supply exceeds total supply"
     ELSE IF Abs(totalHoldings - totalSupply) > 1 THEN "Supply mismatch"
     ELSE NoText
ValidationError(totalSupply, founderHoldings, burnWalletBalance) ==
  LET circulatingSupply == Max(0, totalSupply - founderHoldings - burnWalletBalance)
      totalHoldings == founderHoldings + burnWalletBalance + circulatingSupply
  IN IF totalSupply <= 0 THEN "Invalid total supply"
     ELSE IF founderHoldings > totalSupply THEN "Founder balance exceeds total supply"
     ELSE IF burnWalletBalance > totalSupply THEN "Burn wallet balance exceeds total supply"
     ELSE IF circulatingSupply > totalSupply THEN "Circulating supply exceeds total supply"
     ELSE IF Abs(totalHoldings - totalSupply) > 1 THEN "Supply mismatch"
     ELSE NoText
\* the stats object; burnRate = burn / total * 100 kept as <<numerator, denominator>>
ValidatedStats(price, totalSupply, founderHoldings, burnWalletBalance, holders, t) ==
  LET circulatingSupply == Max(0, totalSupply - founderHoldings - burnWalletBalance)
  IN [price |-> price,
      totalSupply |-> totalSupply,
      circulatingSupply |-> circulatingSupply,
      founderBalance |-> founderHoldings,
      holders |-> holders,
      marketCap |-> circulatingSupply * price,
      totalValue |-> totalSupply * price,
      founderValue |-> founderHoldings * price,
      toBeBurnedTokens |-> burnWalletBalance,
      toBeBurnedValue |-> burnWalletBalance * price,
      burnRate |-> <<burnWalletBalance * 100, totalSupply>>,
      lastUpdated |-> t]
\* the zeroed fields of the 500 body
ZeroStats(t) ==
  [price |-> 0, totalSupply |-> 0, circulatingSupply |-> 0, founderBalance |-> 0,
   holders |-> 0, marketCap |-> 0, totalValue |-> 0, founderValue |-> 0,
   toBeBurnedTokens |-> 0, toBeBurnedValue |-> 0, burnRate |-> <<0, 1>>,
   lastUpdated |-> t]

\* ------------------------------------------------- part_011 stats (no checks)
PlainStats(tokenPrice, tokenSupply, founderBalance, burnedTokens, holders, t) ==
  LET circulatingSupply == tokenSupply - founderBalance - burnedTokens
  IN [price |-> tokenPrice,
      totalSupply |-> tokenSupply,
      circulatingSupply |-> circulatingSupply,
      founderBalance |-> founderBalance,
      holders |-> holders,
      marketCap |-> circulatingSupply * tokenPrice,
      totalValue |-> tokenSupply * tokenPrice,
      founderValue |-> founderBalance * tokenPrice,
      burnedTokens |-> burnedTokens,
      burnedValue |-> burnedTokens * tokenPrice,
      lastUpdated |-> t]

\* --------------------------------------- part_010 / dist_server responseData
CacheData(price, totalSupply, founderBalance, holders, t) ==
  [price |-> price, totalSupply |-> totalSupply, founderBalance |-> founderBalance,
   holders |-> holders, lastUpdated |-> t]


\* ------------------------------------------------------------- responses
\* res.json({...cachedStats, cached: true, cacheAge})
HitResp(r, data, age) ==
  [req |-> r, status |-> 200, stats |-> data, cached |-> TRUE, cacheAge |-> age,
   error |-> NoText, message |-> NoText, calls |-> {}]
\* res.json(stats) / res.json({...responseData, cached: false})
FreshResp(r, data, calls) ==
  [req |-> r, status |-> 200, stats |-> data, cached |-> FALSE, cacheAge |-> Absent,
   error |-> NoText, message |-> NoText, calls |-> calls]
\* catch of src/src/server.ts: status 500, zeroed fields, error and message
ErrorRespSrc(r, msg, t, calls) ==
  [req |-> r, status |-> 500, stats |-> ZeroStats(t), cached |-> FALSE, cacheAge |-> Absent,
   error |-> "Failed to fetch token stats", message |-> msg, calls |-> calls]
\* catch of dist/server.js: the cached data with an error marker, else status 500
ErrorRespDist(r, c, calls) ==
  IF c.data # NoData
  THEN [req |-> r, status |-> 200, stats |-> c.data, cached |-> TRUE, cacheAge |-> Absent,
        error |-> "Failed to fetch fresh data", message |-> NoText, calls |-> calls]
  ELSE [req |-> r, status |-> 500, stats |-> NoData, cached |-> FALSE, cacheAge |-> Absent,
        error |-> "Failed to fetch token stats", message |-> NoText, calls |-> calls]

\* ------------------------------------------------------------------ Init
\* no holder enumeration is under way
NoEnumeration ==
  /\ upstream = <<>>
  /\ failAt = 0
  /\ page = 1
  /\ uniqueOwners = {}
  /\ hpc = "idle"
  /\ requests = 0
  /\ holdersResult = Pending
\* no balance resolution is under way
NoBalance ==
  /\ walletAccounts = <<>>
  /\ balancePc = "idle"
  /\ walletBalance = [value |-> Pending, logs |-> 0]
\* no component other than the handlers and the holder enumeration is active
\* no external call is under way
NoCall ==
  /\ config = [retry |-> Absent, retryDelay |-> Absent]
  /\ retryLeft = Absent
  /\ phase = "idle"
  /\ attempts = 0
  /\ waited = <<>>
  /\ failure = "none"
  /\ overdue = FALSE
\* no refresh is followed fetch by fetch
NoJoin ==
  /\ fetches = <<>>
  /\ joinResp = "none"
\* a request that carries no file
NoFile ==
  [none |-> TRUE]
\* no upload is in progress
NoUpload ==
  /\ upFile = NoFile
  /\ upPc = "idle"
  /\ upStatus = 0
  /\ asset = "none"
  /\ memeRecord = FALSE
  /\ ops = {}
\* the meme routes are not exercised
NoList ==
  /\ memesFile = <<>>
  /\ memes = <<>>
  /\ listResp = <<>>
  /\ nextId = 1
  /\ memeAnswer = [op |-> "none", status |-> 0]
\* an error answer that has not been sent
NoBody ==
  [none |-> TRUE]
\* no error path is followed
NoError ==
  /\ nodeEnv = "production"
  /\ thrown = NoText
  /\ errPc = "idle"
  /\ errorBody = NoBody
\* fetchTokenHolders is not running
NoTracker ==
  /\ holdersCalls = 0
  /\ holdersRetry = 0
  /\ holdersPc = "idle"
  /\ holdersFailure = "none"
  /\ holdersReturn = Pending
\* getWorkingConnection is not running
NoConn ==
  /\ probed = <<>>
  /\ loopIdx = 0
  /\ connPc = "idle"
  /\ connResult = Absent
NoTools ==
  /\ NoBalance
  /\ NoCall
  /\ NoJoin
  /\ NoUpload
  /\ NoList
  /\ NoError
  /\ NoTracker
  /\ NoConn
\* the request handlers are at rest: empty caches, no request, no connection
NoServer ==
  /\ now = 0
  /\ statsCache = EmptyStatsCache
  /\ cache = EmptyCache
  /\ req = [r \in Reqs |-> IdleReq]
  /\ lastResp = NoResp
  /\ lastStored = NoData
  /\ solanaConnection = Absent
  /\ currentRpcIndex = 0
Init ==
  /\ variant \in Variants
  /\ now = 0
  /\ statsCache = EmptyStatsCache
  /\ cache = EmptyCache
  /\ req = [r \in Reqs |-> IdleReq]
  /\ lastResp = NoResp
  /\ lastStored = NoData
  /\ solanaConnection = Absent
  /\ currentRpcIndex = 0
  /\ NoEnumeration
  /\ NoTools

\* the clock advances by one tick
Tick ==
  /\ now < MaxTime
  /\ now' = now + 1
  /\ lastResp' = NoResp
  /\ UNCHANGED <<variant, statsCache, cache, req, lastStored, solanaConnection, currentRpcIndex>>
  /\ UNCHANGED holderVars
  /\ UNCHANGED toolVars

\* requests are told apart only by the slot that holds their handler state:
\* an arriving request takes the lowest slot with no handler running
FreeSlot(r) ==
  /\ req[r].pc = "idle"
  /\ \A q \in Reqs : q < r => req[q].pc # "idle"

\* ------------------------------------------- node-cache handlers: arrival
\* app.get('/token-stats') up to the first await: cache check, hit response,
\* or launch of the five fetches of Promise.all
ReceiveNodeCache(r) ==
  /\ variant \in NodeCacheVariants
  /\ FreeSlot(r)
  /\ LET cachedStats == NodeCacheGet(statsCache, now)
         after == NodeCacheAfterGet(statsCache, now)
     IN /\ statsCache' = after
        /\ IF cachedStats # NoData
           THEN /\ lastResp' = HitResp(r, cachedStats, after.t - now)
                /\ req' = req
           ELSE /\ lastResp' = NoResp
                /\ req' = [req EXCEPT ![r] =
                     [pc |-> "fetching", now0 |-> 0, supply |-> Pending,
                      calls |-> {"price", "supply", "founder", "burn", "holders"}]]
  /\ UNCHANGED <<variant, now, cache, lastStored, solanaConnection, currentRpcIndex>>
  /\ UNCHANGED holderVars
  /\ UNCHANGED toolVars

\* getTokenSupply of src/src/server.ts settles with outs the answers of the
\* endpoints: on total failure the cache is read for the fallback
SupplySettleOut(r, outs) ==
  /\ variant = "src_server"
  /\ req[r].pc = "fetching"
  /\ req[r].supply = Pending
  /\ req' = [req EXCEPT ![r].supply = getTokenSupply(outs, statsCache, now)]
  /\ statsCache' = IF FirstValidSupply(outs, 1) = Fail
                   THEN NodeCacheAfterGet(statsCache, now)
                   ELSE statsCache
  /\ lastResp' = NoResp
  /\ UNCHANGED <<variant, now, cache, lastStored, solanaConnection, currentRpcIndex>>
  /\ UNCHANGED holderVars
  /\ UNCHANGED toolVars
SupplySettle(r) ==
  \E outs \in [1..NumSupplyEndpoints -> Amounts \cup {Fail, Invalid}] :
    SupplySettleOut(r, outs)

\* src/src/server.ts after Promise.all, with p, f, b, h the outcomes of the
\* price, founder, burn and holders fetches: metrics, validation, cache set,
\* response
JoinSrcOut(r, p, f, b, h) ==
  /\ variant = "src_server"
  /\ req[r].pc = "fetching"
  /\ req[r].supply # Pending
  /\ LET price == OrElse(p, 0)
         totalSupply == OrElse(req[r].supply, 0)
         founderHoldings == OrElse(f, 0)
         burnWalletBalance == OrElse(b, 0)
         holders == OrElse(h, 0)
         msg == ValidationError(totalSupply, founderHoldings, burnWalletBalance)
         stats == ValidatedStats(price, totalSupply, founderHoldings,
                                 burnWalletBalance, holders, now)
     IN IF msg # NoText
        THEN /\ lastResp' = ErrorRespSrc(r, msg, now, req[r].calls)
             /\ UNCHANGED <<statsCache, lastStored>>
        ELSE /\ statsCache' = NodeCacheSet(stats, now)
             /\ lastStored' = stats
             /\ lastResp' = FreshResp(r, stats, req[r].calls)
  /\ req' = [req EXCEPT ![r] = IdleReq]
  /\ UNCHANGED <<variant, now, cache, solanaConnection, currentRpcIndex>>
  /\ UNCHANGED holderVars
  /\ UNCHANGED toolVars
JoinSrc(r) ==
  \E p \in Outcome(Prices), f \in Outcome(Amounts), b \in Outcome(Amounts),
     h \in Outcome(HolderCounts) :
    JoinSrcOut(r, p, f, b, h)

\* part_011 after Promise.all, with the outcomes of its five fetches:
\* metrics, cache set, response
JoinPart011Out(r, p, s, f, b, h) ==
  /\ variant = "part_011"
  /\ req[r].pc = "fetching"
  /\ LET stats == PlainStats(OrElse(p, 0), OrElse(s, 0), OrElse(f, 0),
                             OrElse(b, 0), OrElse(h, 0), now)
     IN /\ statsCache' = NodeCacheSet(stats, now)
        /\ lastStored' = stats
        /\ lastResp' = FreshResp(r, stats, req[r].calls)
  /\ req' = [req EXCEPT ![r] = IdleReq]
  /\ UNCHANGED <<variant, now, cache, solanaConnection, currentRpcIndex>>
  /\ UNCHANGED holderVars
  /\ UNCHANGED toolVars
JoinPart011(r) ==
  \E p \in Outcome(Prices), s \in Outcome(Amounts), f \in Outcome(Amounts),
     b \in Outcome(Amounts), h \in Outcome(HolderCounts) :
    JoinPart011Out(r, p, s, f, b, h)

\* ------------------------------------------ cache-object handlers: arrival
\* app.get('/api/token-stats') up to the first await: now = Date.now(), cache
\* check, hit response, or start of the refresh (part_010: Promise.all of
\* price, holders, supply; dist_server: getWorkingConnection's first probe)
ReceiveCacheObj(r) ==
  /\ variant \in {"part_010", "dist_server"}
  /\ FreeSlot(r)
  /\ IF CacheFresh(cache, now)
     THEN /\ lastResp' = HitResp(r, cache.data, now - cache.timestamp)
          /\ req' = req
     ELSE /\ lastResp' = NoResp
          /\ req' = [req EXCEPT ![r] =
               [pc |-> IF variant = "dist_server" THEN "connecting" ELSE "fetching",
                now0 |-> now, supply |-> Pending,
                calls |-> IF variant = "dist_server" THEN {"probe"}
                          ELSE {"price", "holders", "supply"}]]
  /\ UNCHANGED <<variant, now, statsCache, cache, lastStored, solanaConnection, currentRpcIndex>>
  /\ UNCHANGED holderVars
  /\ UNCHANGED toolVars

\* part_010 after Promise.all: every fetch has its own catch and default
JoinPart010OutDataOnly(r, p, h, s) ==
  /\ variant = "part_010"
  /\ req[r].pc = "fetching"
  /\ LET responseData == CacheData(OrElse(p, 0), OrElse(s, DefaultSupply),
                                   HardcodedFounderBalance, OrElse(h, 0), now)
     IN /\ cache' = [cache EXCEPT !.data = responseData]
        /\ lastStored' = responseData
        /\ lastResp' = FreshResp(r, responseData, req[r].calls)
  /\ req' = [req EXCEPT ![r] = IdleReq]
  /\ UNCHANGED <<variant, now, statsCache, solanaConnection, currentRpcIndex>>
  /\ UNCHANGED holderVars
  /\ UNCHANGED toolVars
JoinPart010Out(r, p, h, s) ==
  /\ variant = "part_010"
  /\ req[r].pc = "fetching"
  /\ LET responseData == CacheData(OrElse(p, 0), OrElse(s, DefaultSupply),
                                   HardcodedFounderBalance, OrElse(h, 0), now)
     IN /\ cache' = [data |-> responseData, timestamp |-> req[r].now0]
        /\ lastStored' = responseData
        /\ lastResp' = FreshResp(r, responseData, req[r].calls)
  /\ req' = [req EXCEPT ![r] = IdleReq]
  /\ UNCHANGED <<variant, now, statsCache, solanaConnection, currentRpcIndex>>
  /\ UNCHANGED holderVars
  /\ UNCHANGED toolVars
JoinPart010(r) ==
  \E p \in Outcome(Prices), h \in Outcome(HolderCounts), s \in Outcome(Amounts) :
    JoinPart010Out(r, p, h, s)

\* ------------------------------------------------- dist_server connection
\* the k-th endpoint tried by the loop: currentRpcIndex advanced k times
RotatedNoWrap(cur, k) ==
  cur + k
Rotated(cur, k) ==
  (cur + k) % NumRpcEndpoints
\* number of loop iterations until a probe succeeds; 0 if every probe fails
RECURSIVE FirstWorking(_, _, _)
FirstWorking(cur, up, k) ==
  IF k > NumRpcEndpoints THEN 0
  ELSE IF Rotated(cur, k) \in up THEN k
  ELSE FirstWorking(cur, up, k + 1)
\* getWorkingConnection with up the endpoints whose getSlot succeeds:
\* the connection returned (Fail when it throws) and the new module state
getWorkingConnection(conn, cur, up) ==
  IF conn # Absent /\ conn \in up
  THEN [result |-> conn, solanaConnection |-> conn, currentRpcIndex |-> cur]
  ELSE LET k == FirstWorking(cur, up, 1)
       IN IF k = 0
          THEN [result |-> Fail, solanaConnection |-> conn,
                currentRpcIndex |-> Rotated(cur, NumRpcEndpoints)]
          ELSE [result |-> Rotated(cur, k), solanaConnection |-> Rotated(cur, k),
                currentRpcIndex |-> Rotated(cur, k)]

\* dist_server: getWorkingConnection settles, with up the endpoints whose
\* getSlot succeeds; then Promise.all is launched, or the handler's catch answers
ConnectOut(r, up) ==
  /\ variant = "dist_server"
  /\ req[r].pc = "connecting"
  /\ LET g == getWorkingConnection(solanaConnection, currentRpcIndex, up)
     IN /\ solanaConnection' = g.solanaConnection
        /\ currentRpcIndex' = g.currentRpcIndex
        /\ IF g.result = Fail
           THEN /\ lastResp' = ErrorRespDist(r, cache, req[r].calls)
                /\ req' = [req EXCEPT ![r] = IdleReq]
           ELSE /\ lastResp' = NoResp
                /\ req' = [req EXCEPT ![r].pc = "fetching",
                                      ![r].calls = @ \cup {"supply", "founder", "holders"}]
  /\ UNCHANGED <<variant, now, statsCache, cache, lastStored>>
  /\ UNCHANGED holderVars
  /\ UNCHANGED toolVars
Connect(r) ==
  \E up \in SUBSET RpcIdx :
    ConnectOut(r, up)

\* dist_server after Promise.all, with the outcomes of the supply, founder
\* account and holders fetches: one rejection reaches the catch; otherwise the
\* snapshot is built (price from the cached snapshot), stored and answered
JoinDistOutDefaultPrice(r, s, f, h) ==
  /\ variant = "dist_server"
  /\ req[r].pc = "fetching"
  /\ LET responseData == CacheData(
                           IF cache.data # NoData THEN OrElse(cache.data.price, MaxPrice) ELSE MaxPrice,
                           s, OrElse(f, 0), h, now)
     IN IF Fail \in {s, f, h}
        THEN /\ lastResp' = ErrorRespDist(r, cache, req[r].calls)
             /\ UNCHANGED <<cache, lastStored>>
        ELSE /\ cache' = [data |-> responseData, timestamp |-> req[r].now0]
             /\ lastStored' = responseData
             /\ lastResp' = FreshResp(r, responseData, req[r].calls)
  /\ req' = [req EXCEPT ![r] = IdleReq]
  /\ UNCHANGED <<variant, now, statsCache, solanaConnection, currentRpcIndex>>
  /\ UNCHANGED holderVars
  /\ UNCHANGED toolVars
JoinDistOut(r, s, f, h) ==
  /\ variant = "dist_server"
  /\ req[r].pc = "fetching"
  /\ LET responseData == CacheData(
                           IF cache.data # NoData THEN OrElse(cache.data.price, 0) ELSE 0,
                           s, OrElse(f, 0), h, now)
     IN IF Fail \in {s, f, h}
        THEN /\ lastResp' = ErrorRespDist(r, cache, req[r].calls)
             /\ UNCHANGED <<cache, lastStored>>
        ELSE /\ cache' = [data |-> responseData, timestamp |-> req[r].now0]
             /\ lastStored' = responseData
             /\ lastResp' = FreshResp(r, responseData, req[r].calls)
  /\ req' = [req EXCEPT ![r] = IdleReq]
  /\ UNCHANGED <<variant, now, statsCache, solanaConnection, currentRpcIndex>>
  /\ UNCHANGED holderVars
  /\ UNCHANGED toolVars
JoinDist(r) ==
  \E s \in Outcome(Amounts), f \in Outcome(Amounts), h \in Outcome(HolderCounts) :
    JoinDistOut(r, s, f, h)

\* ------------------------------------------------------------------ Next
Next ==
  \/ Tick
  \/ \E r \in Reqs : ReceiveNodeCache(r)
  \/ \E r \in Reqs : SupplySettle(r)
  \/ \E r \in Reqs : JoinSrc(r)
  \/ \E r \in Reqs : JoinPart011(r)
  \/ \E r \in Reqs : ReceiveCacheObj(r)
  \/ \E r \in Reqs : JoinPart010(r)
  \/ \E r \in Reqs : Connect(r)
  \/ \E r \in Reqs : JoinDist(r)

Spec ==
  Init /\ [][Next]_vars

\* ------------------------------------------------------------ type check
TypeOK ==
  /\ variant \in Variants
  /\ now \in 0..MaxTime
  /\ \A r \in Reqs : req[r].pc \in {"idle", "connecting", "fetching"}
  /\ currentRpcIndex \in RpcIdx
  /\ solanaConnection \in RpcIdx \cup {Absent}


\* ------------------------------------------------------ holder enumeration
\* getHolderCount (src/src/server.ts, part_011) and fetchTokenHoldersFromHelius
\* (dist/server.js) page through getTokenAccounts of the indexing service.
\* The revision is chosen by variant; one action per page request.
Owners ==
  1..NumOwners
\* amount of a token account: zero or positive
AccountAmounts ==
  {0, 1}
TokenAccounts ==
  [owner : Owners, amount : AccountAmounts]
UpstreamLists ==
  UNION {[1..n -> TokenAccounts] : n \in 0..MaxAccounts}
\* the first page past every account the service can hold
LastPage ==
  (MaxAccounts \div limit) + 1
HolderVariants ==
  {"src_server", "dist_server"}
Min(a, b) ==
  IF a <= b THEN a ELSE b
\* result.token_accounts of the request { page: p, limit }: the p-th slice of
\* the service's accounts, empty past the end
PageOf(accts, p) ==
  SubSeq(accts, (p - 1) * limit + 1, Min(p * limit, Len(accts)))
\* accounts.forEach(account => uniqueOwners.add(account.owner))
AddOwnersThisPageOnly(owners, accounts) ==
  {accounts[i].owner : i \in DOMAIN accounts}
AddOwners(owners, accounts) ==
  owners \cup {accounts[i].owner : i \in DOMAIN accounts}

HolderInit ==
  /\ variant \in HolderVariants
  /\ now = 0
  /\ statsCache = EmptyStatsCache
  /\ cache = EmptyCache
  /\ req = [r \in Reqs |-> IdleReq]
  /\ lastResp = NoResp
  /\ lastStored = NoData
  /\ solanaConnection = Absent
  /\ currentRpcIndex = 0
  /\ upstream \in UpstreamLists
  /\ failAt \in 0..LastPage
  /\ page = 1
  /\ uniqueOwners = {}
  /\ hpc = "idle"
  /\ requests = 0
  /\ holdersResult = Pending
  /\ NoTools

\* the enumerator is called: let page = 1; uniqueOwners = new Set()
StartEnumeration ==
  /\ hpc = "idle"
  /\ hpc' = "paging"
  /\ page' = 1
  /\ uniqueOwners' = {}
  /\ UNCHANGED <<upstream, failAt, requests, holdersResult>>
  /\ UNCHANGED serverVars
  /\ UNCHANGED toolVars

\* getHolderCount: the request of the current page is answered
GetHolderCountPage ==
  /\ variant \in NodeCacheVariants
  /\ hpc = "paging"
  /\ page # failAt
  /\ requests' = requests + 1
  /\ LET accounts == PageOf(upstream, page)
         added == AddOwners(uniqueOwners, accounts)
     IN IF Len(accounts) = 0
        THEN /\ hpc' = "done"
             /\ holdersResult' = Cardinality(uniqueOwners)
             /\ UNCHANGED <<page, uniqueOwners>>
        ELSE /\ uniqueOwners' = added
             /\ IF Len(accounts) < limit
                THEN /\ hpc' = "done"
                     /\ holdersResult' = Cardinality(added)
                     /\ UNCHANGED page
                ELSE /\ page' = page + 1
                     /\ UNCHANGED <<hpc, holdersResult>>
  /\ UNCHANGED <<upstream, failAt>>
  /\ UNCHANGED serverVars
  /\ UNCHANGED toolVars

\* getHolderCount: the request of the current page fails; catch: return 0
GetHolderCountFails ==
  /\ variant \in NodeCacheVariants
  /\ hpc = "paging"
  /\ page = failAt
  /\ requests' = requests + 1
  /\ hpc' = "done"
  /\ holdersResult' = 0
  /\ UNCHANGED <<upstream, failAt, page, uniqueOwners>>
  /\ UNCHANGED serverVars
  /\ UNCHANGED toolVars

\* fetchTokenHoldersFromHelius: the request of the current page is answered;
\* only an empty page ends the loop
HeliusPage ==
  /\ variant = "dist_server"
  /\ hpc = "paging"
  /\ page # failAt
  /\ requests' = requests + 1
  /\ LET accounts == PageOf(upstream, page)
     IN IF Len(accounts) = 0
        THEN /\ hpc' = "done"
             /\ holdersResult' = Cardinality(uniqueOwners)
             /\ UNCHANGED <<page, uniqueOwners>>
        ELSE /\ uniqueOwners' = AddOwners(uniqueOwners, accounts)
             /\ page' = page + 1
             /\ UNCHANGED <<hpc, holdersResult>>
  /\ UNCHANGED <<upstream, failAt>>
  /\ UNCHANGED serverVars
  /\ UNCHANGED toolVars

\* fetchTokenHoldersFromHelius: the request of the current page fails
\* (rejected, or !response.ok); catch: throw error
HeliusFails ==
  /\ variant = "dist_server"
  /\ hpc = "paging"
  /\ page = failAt
  /\ requests' = requests + 1
  /\ hpc' = "done"
  /\ holdersResult' = Fail
  /\ UNCHANGED <<upstream, failAt, page, uniqueOwners>>
  /\ UNCHANGED serverVars
  /\ UNCHANGED toolVars

HolderNext ==
  \/ StartEnumeration
  \/ GetHolderCountPage
  \/ GetHolderCountFails
  \/ HeliusPage
  \/ HeliusFails

HolderSpec ==
  HolderInit /\ [][HolderNext]_vars

HolderTypeOK ==
  /\ hpc \in {"idle", "paging", "done"}
  /\ page \in 1..(LastPage + 1)
  /\ uniqueOwners \subseteq Owners
  /\ requests \in 0..(LastPage + 1)
  /\ holdersResult \in {Pending, Fail} \cup (0..NumOwners)


\* ------------------------------------------------------ balance resolution
\* getWalletBalance (src/src/server.ts, part_011) reads the wallet's accounts
\* from getTokenAccounts of the indexing service, fetchFounderBalance
\* (part_010) and the handler of dist/server.js read them from the RPC node.
\* Balances are counted in units of 10^-MaxDecimals token.
\* NaN; and the JSON number -1 as a decimals value (below the range 0..20)
NaN ==
  -4
BelowRange ==
  -5
RECURSIVE Pow10(_)
Pow10(n) ==
  IF n <= 0 THEN 1 ELSE 10 * Pow10(n - 1)
\* raw amount / 10^decimals, in units of 10^-MaxDecimals
UiAmount(amount, decimals) ==
  amount * Pow10(MaxDecimals - decimals)
\* accounts as the indexing service may answer them: the amount a count or a
\* non-numeric string (Invalid), the decimals a valid exponent, missing
\* (Absent), a non-numeric string (Invalid) or out of range (BelowRange)
HeliusAccounts ==
  [amount : (0..MaxRaw) \cup {Invalid},
   decimals : (0..MaxDecimals) \cup {Absent, Invalid, BelowRange},
   info : {"parsed"}]
\* accounts as the RPC node answers them, with the outcome of
\* getParsedAccountInfo for the account: parsed, unparsed data, or rejected
RpcAccounts ==
  [amount : 0..MaxRaw, decimals : 0..MaxDecimals, info : {"parsed", "raw", "rejected"}]
WalletLists(A) ==
  UNION {[1..n -> A] : n \in 0..MaxWalletAccounts}

\* getWalletBalance of src/src/server.ts: the reduce over token_accounts from
\* account i on, with acc = [value, logs]; value Fail once BigInt has thrown
RECURSIVE ReduceSrc(_, _, _)
ReduceSrc(accts, i, acc) ==
  IF i > Len(accts) \/ acc.value = Fail THEN acc
  ELSE LET a == accts[i]
           skip == [acc EXCEPT !.logs = @ + 1]
       IN IF a.amount = 0 \/ a.decimals \in {Absent, 0}
          THEN ReduceSrc(accts, i + 1, skip)
          ELSE IF a.amount = Invalid
          THEN [value |-> Fail, logs |-> acc.logs]
          ELSE IF a.decimals = BelowRange
          THEN ReduceSrc(accts, i + 1, skip)
          ELSE IF a.decimals = Invalid \/ acc.value = NaN
          THEN ReduceSrc(accts, i + 1, [acc EXCEPT !.value = NaN])
          ELSE ReduceSrc(accts, i + 1,
                         [acc EXCEPT !.value = @ + UiAmount(a.amount, a.decimals)])
\* the value returned: 0 from the catch and from the isNaN check, each logged
getWalletBalance(accts) ==
  LET total == ReduceSrc(accts, 1, [value |-> 0, logs |-> 0])
  IN IF total.value \in {Fail, NaN}
     THEN [value |-> 0, logs |-> total.logs + 1]
     ELSE total

\* getWalletBalance of part_011: sum + (amount ? Number(amount) / 10^decimals : 0)
RECURSIVE ReducePart011(_, _, _)
ReducePart011(accts, i, sum) ==
  IF i > Len(accts) THEN sum
  ELSE LET a == accts[i]
       IN IF a.amount = 0 THEN ReducePart011(accts, i + 1, sum)
          ELSE IF sum = NaN \/ a.amount = Invalid \/ a.decimals \in {Absent, Invalid}
          THEN ReducePart011(accts, i + 1, NaN)
          ELSE IF a.decimals = BelowRange
          THEN ReducePart011(accts, i + 1, sum + UiAmount(a.amount, -1))
          ELSE ReducePart011(accts, i + 1, sum + UiAmount(a.amount, a.decimals))
getWalletBalancePart011(accts) ==
  [value |-> ReducePart011(accts, 1, 0), logs |-> 0]

\* fetchFounderBalance of part_010: getParsedAccountInfo per account; a
\* rejection is not caught, unparsed data is passed over
RECURSIVE SumParsed(_, _, _)
SumParsed(accts, i, totalBalance) ==
  IF i > Len(accts) THEN totalBalance
  ELSE LET a == accts[i]
       IN IF a.info = "rejected" THEN Fail
          ELSE IF a.info = "raw" THEN SumParsed(accts, i + 1, totalBalance)
          ELSE SumParsed(accts, i + 1, totalBalance + UiAmount(a.amount, a.decimals))
fetchFounderBalance(accts) ==
  [value |-> SumParsed(accts, 1, 0), logs |-> 0]

\* dist/server.js: founderAccount.value[0]?.account.data.parsed.info.tokenAmount.uiAmount || 0
FirstAccountBalance(accts) ==
  [value |-> IF Len(accts) = 0 THEN 0 ELSE UiAmount(accts[1].amount, accts[1].decimals),
   logs |-> 0]

BalanceInit ==
  /\ variant \in Variants
  /\ NoServer
  /\ NoEnumeration
  /\ walletAccounts \in
       IF variant \in NodeCacheVariants THEN WalletLists(HeliusAccounts)
       ELSE IF variant = "part_010" THEN WalletLists(RpcAccounts)
       ELSE WalletLists({a \in RpcAccounts : a.info = "parsed"})
  /\ balancePc = "idle"
  /\ walletBalance = [value |-> Pending, logs |-> 0]
  /\ NoCall
  /\ NoJoin
  /\ NoUpload
  /\ NoList
  /\ NoError
  /\ NoTracker
  /\ NoConn

\* the balance of the wallet is resolved by the revision's resolver
ResolveSrc ==
  /\ variant = "src_server"
  /\ balancePc = "idle"
  /\ balancePc' = "done"
  /\ walletBalance' = getWalletBalance(walletAccounts)
  /\ UNCHANGED <<walletAccounts, notBalanceVars>>
ResolvePart011 ==
  /\ variant = "part_011"
  /\ balancePc = "idle"
  /\ balancePc' = "done"
  /\ walletBalance' = getWalletBalancePart011(walletAccounts)
  /\ UNCHANGED <<walletAccounts, notBalanceVars>>
ResolvePart010 ==
  /\ variant = "part_010"
  /\ balancePc = "idle"
  /\ balancePc' = "done"
  /\ walletBalance' = fetchFounderBalance(walletAccounts)
  /\ UNCHANGED <<walletAccounts, notBalanceVars>>
ResolveDist ==
  /\ variant = "dist_server"
  /\ balancePc = "idle"
  /\ balancePc' = "done"
  /\ walletBalance' = FirstAccountBalance(walletAccounts)
  /\ UNCHANGED <<walletAccounts, notBalanceVars>>

BalanceNext ==
  \/ ResolveSrc
  \/ ResolvePart011
  \/ ResolvePart010
  \/ ResolveDist

BalanceSpec ==
  BalanceInit /\ [][BalanceNext]_vars

\* ------------------------------------------------------- one external call
\* One HTTP call of a fetch: through plain axios (src/src/server.ts: no
\* interceptor, no timeout), or through axiosWithRetry (timeout 10000 ms and
\* the retry interceptor) of src/server.ts ("root_server") or of part_010.
CallVariants ==
  {"src_server", "root_server", "part_010"}
\* what rejects an attempt: an error status of the response, or no response
ErrorKinds ==
  {"429", "404", "network"}
\* axios.create({ timeout: 10000 }); plain axios has no timeout
HasTimeout ==
  variant # "src_server"
\* the response interceptor of src/server.ts on a rejected attempt, with left
\* the value of config.retry: the new config.retry and whether it retries
RootInterceptor(left) ==
  IF left = Absent \/ left = 0 THEN [retryLeft |-> left, again |-> FALSE]
  ELSE [retryLeft |-> left - 1, again |-> left - 1 # 0]
\* the response interceptor of part_010
Part010Interceptor(left) ==
  IF left = Absent THEN [retryLeft |-> left, again |-> FALSE]
  ELSE [retryLeft |-> left - 1, again |-> ~(left - 1 < 0)]

CallInit ==
  /\ variant \in CallVariants
  /\ NoServer
  /\ NoEnumeration
  /\ NoBalance
  /\ config \in IF variant = "src_server"
                THEN {[retry |-> Absent, retryDelay |-> Absent]}
                ELSE [retry : (0..MaxRetry) \cup {Absent}, retryDelay : {Absent, 1, 2}]
  /\ retryLeft = config.retry
  /\ phase = "idle"
  /\ attempts = 0
  /\ waited = <<>>
  /\ failure = "none"
  /\ overdue = FALSE
  /\ NoJoin
  /\ NoUpload
  /\ NoList
  /\ NoError
  /\ NoTracker
  /\ NoConn

\* the caller sends the request
SendCall ==
  /\ phase = "idle"
  /\ phase' = "sending"
  /\ attempts' = 1
  /\ UNCHANGED <<config, retryLeft, waited, failure, overdue, notCallVars>>

\* a 2xx response arrives, well formed or with a malformed payload: the
\* promise resolves and the interceptor does not run
AttemptAnswered(kind) ==
  /\ phase = "sending"
  /\ ~overdue
  /\ phase' = "resolved"
  /\ failure' = kind
  /\ UNCHANGED <<config, retryLeft, attempts, waited, overdue, notCallVars>>

\* the attempt is rejected with an error of the given kind: the interceptor
\* (if any) rejects to the caller or schedules a retry
AttemptRejected(kind) ==
  /\ phase = "sending"
  /\ ~overdue
  /\ failure' = kind
  /\ LET i == IF variant = "root_server" THEN RootInterceptor(retryLeft)
              ELSE IF variant = "part_010" THEN Part010Interceptor(retryLeft)
              ELSE [retryLeft |-> retryLeft, again |-> FALSE]
     IN /\ retryLeft' = i.retryLeft
        /\ phase' = IF i.again THEN "backoff" ELSE "rejected"
  /\ UNCHANGED <<config, attempts, waited, overdue, notCallVars>>
AttemptFails ==
  \E kind \in ErrorKinds : AttemptRejected(kind)

\* the upstream never answers the attempt: with a timeout the attempt is
\* rejected when it elapses; without one the call stays open past any limit
AttemptHangs ==
  IF HasTimeout
  THEN AttemptRejected("timeout")
  ELSE /\ phase = "sending"
       /\ ~overdue
       /\ overdue' = TRUE
       /\ UNCHANGED <<config, retryLeft, phase, attempts, waited, failure, notCallVars>>

\* setTimeout(resolve, config.retryDelay || 1000) fires: axiosWithRetry(config)
BackoffElapses ==
  /\ phase = "backoff"
  /\ phase' = "sending"
  /\ attempts' = attempts + 1
  /\ waited' = Append(waited, OrElse(config.retryDelay, DefaultRetryDelay))
  /\ UNCHANGED <<config, retryLeft, failure, overdue, notCallVars>>

CallNext ==
  \/ SendCall
  \/ \E kind \in {"none", "malformed"} : AttemptAnswered(kind)
  \/ AttemptFails
  \/ AttemptHangs
  \/ BackoffElapses

CallSpec ==
  CallInit /\ [][CallNext]_vars

\* ------------------------------------------------- the join of one refresh
\* await Promise.all([...]) of one request, fetch by fetch.  Promise.all
\* fulfils when every promise has fulfilled and rejects as soon as one
\* rejects; the handler's continuation (snapshot, or catch) runs in the step
\* that settles it.
JoinVariants ==
  {"src_server", "part_011", "part_010", "dist_server", "root_server"}
\* the promises passed to Promise.all
FetchNames ==
  IF variant \in NodeCacheVariants THEN {"price", "supply", "founder", "burn", "holders"}
  ELSE IF variant = "part_010" THEN {"price", "holders", "supply"}
  ELSE IF variant = "dist_server" THEN {"supply", "founder", "holders"}
  ELSE {"price", "supply", "founder"}
\* whether a promise passed to Promise.all can reject: the fetch functions of
\* src/src/server.ts and part_011 catch and return 0, part_010 adds .catch to
\* each promise; dist/server.js and src/server.ts pass the bare promises
CanReject ==
  variant \in {"dist_server", "root_server"}
\* what the continuation after the join may answer: src/src/server.ts may
\* still throw from its validation
AfterJoin ==
  IF variant = "src_server" THEN {"snapshot", "error"} ELSE {"snapshot"}

JoinInit ==
  /\ variant \in JoinVariants
  /\ NoServer
  /\ NoEnumeration
  /\ NoBalance
  /\ NoCall
  /\ fetches = [f \in FetchNames |-> "idle"]
  /\ joinResp = "none"
  /\ NoUpload
  /\ NoList
  /\ NoError
  /\ NoTracker
  /\ NoConn

\* the handler misses the cache and calls Promise.all: every fetch starts
StartFetches ==
  /\ \A f \in DOMAIN fetches : fetches[f] = "idle"
  /\ fetches' = [f \in DOMAIN fetches |-> "inflight"]
  /\ UNCHANGED <<joinResp, notJoinVars>>

\* fetch f fulfils; if it was the last one the join fulfils and the handler
\* builds, stores and answers the snapshot (or its validation throws)
FetchFulfils(f) ==
  /\ fetches[f] = "inflight"
  /\ fetches' = [fetches EXCEPT ![f] = "fulfilled"]
  /\ IF joinResp = "none" /\ \A g \in DOMAIN fetches \ {f} : fetches[g] = "fulfilled"
     THEN joinResp' \in AfterJoin
     ELSE UNCHANGED joinResp
  /\ UNCHANGED notJoinVars

\* fetch f rejects; the first rejection rejects the join and the handler's
\* catch answers
FetchRejects(f) ==
  /\ CanReject
  /\ fetches[f] = "inflight"
  /\ fetches' = [fetches EXCEPT ![f] = "rejected"]
  /\ joinResp' = IF joinResp = "none" THEN "error" ELSE joinResp
  /\ UNCHANGED notJoinVars

JoinNext ==
  \/ StartFetches
  \/ \E f \in DOMAIN fetches : FetchFulfils(f)
  \/ \E f \in DOMAIN fetches : FetchRejects(f)

JoinSpec ==
  JoinInit /\ [][JoinNext]_vars

\* ------------------------------------------------------ the upload route
\* router.post('/upload', upload.single('meme'), handler) of the meme routes.
\* upload.single is multer's middleware: it runs fileFilter on the file part,
\* hands an accepted file to the storage engine while it streams in, and on a
\* fileFilter error or a file longer than limits.fileSize removes what the
\* storage engine wrote and calls next(err).  No revision installs an error
\* middleware on the router or the application, so next(err) reaches Express'
\* default handler, which answers err.status or 500; neither Error nor
\* MulterError carries a status.
UploadVariants ==
  {"memes_ts", "memes_ts_b", "part_000", "part_000_mongo", "part_001", "part_002"}
\* multer.diskStorage or multer.memoryStorage
DiskStorage ==
  variant \in {"memes_ts", "memes_ts_b"}
\* content types, as type/subtype
Mime(t, st) ==
  [type |-> t, subtype |-> st]
Mimes ==
  {Mime("image", "png"), Mime("image", "gif"), Mime("image", "webp"), Mime("text", "plain")}
Sizes ==
  1..MaxSize
Files ==
  [mimetype : Mimes, size : Sizes]
allowedTypes ==
  {Mime("image", "jpeg"), Mime("image", "png"), Mime("image", "gif")}
\* whether fileFilter calls cb(null, true): membership in allowedTypes, or
\* mimetype.startsWith('image/')
fileFilter(file) ==
  IF DiskStorage THEN file.mimetype \in allowedTypes
  ELSE file.mimetype.type = "image"
\* limits.fileSize
fileSize ==
  IF variant = "part_001" THEN BlobUploadLimit ELSE FileSizeLimit
\* the status of the handler's success answer
SuccessStatus ==
  IF variant = "memes_ts" THEN 201 ELSE 200

UploadInit ==
  /\ variant \in UploadVariants
  /\ NoServer
  /\ NoEnumeration
  /\ NoBalance
  /\ NoCall
  /\ NoJoin
  /\ NoUpload
  /\ NoList
  /\ NoError
  /\ NoTracker
  /\ NoConn

\* a POST /upload arrives, with or without a file part
ReceiveUpload ==
  /\ upPc = "idle"
  /\ upFile' \in Files \cup {NoFile}
  /\ upPc' = "multer"
  /\ UNCHANGED <<upStatus, asset, memeRecord, ops, notUploadVars>>

\* upload.single('meme')
MulterSingle ==
  /\ upPc = "multer"
  /\ IF upFile = NoFile
     THEN /\ upPc' = "handler"
          /\ UNCHANGED <<upStatus, asset, ops>>
     ELSE IF ~fileFilter(upFile)
     THEN \* cb(new Error(...)): the storage engine is never called
          /\ upPc' = "done"
          /\ upStatus' = 500
          /\ UNCHANGED <<asset, ops>>
     ELSE IF upFile.size > fileSize
     THEN \* the stream hits the limit while the storage engine takes it; the
          \* disk engine has written the file and unlinks it, the memory
          \* engine drops its buffer; next(MulterError LIMIT_FILE_SIZE)
          /\ upPc' = "done"
          /\ upStatus' = 500
          /\ asset' = "none"
          /\ ops' = IF DiskStorage THEN ops \cup {"disk_write", "disk_unlink"} ELSE ops
     ELSE /\ upPc' = "handler"
          /\ upStatus' = upStatus
          /\ asset' = IF DiskStorage THEN "disk" ELSE asset
          /\ ops' = IF DiskStorage THEN ops \cup {"disk_write"} ELSE ops
  /\ UNCHANGED <<upFile, memeRecord, notUploadVars>>

\* the route handler up to its answer or its first await
UploadHandler ==
  /\ upPc = "handler"
  /\ IF upFile = NoFile
     THEN /\ upPc' = "done"
          /\ upStatus' = 400
     ELSE IF DiskStorage
     THEN \* the meme record is built for the answer only
          /\ upPc' = "done"
          /\ upStatus' = SuccessStatus
     ELSE /\ upPc' = "put"
          /\ upStatus' = upStatus
  /\ UNCHANGED <<upFile, asset, memeRecord, ops, notUploadVars>>

\* await put(filename, file.buffer, ...) settles; part_002 goes on to
\* saveMemes, which writes the JSON file and swallows a write error
PutSettles(ok, saved) ==
  /\ upPc = "put"
  /\ ops' = IF ok /\ variant = "part_002" THEN ops \cup {"blob_put", "record_write"}
            ELSE ops \cup {"blob_put"}
  /\ asset' = IF ok THEN "blob" ELSE asset
  /\ IF ~ok
     THEN upPc' = "done" /\ upStatus' = 500 /\ UNCHANGED memeRecord
     ELSE IF variant = "part_000_mongo"
     THEN upPc' = "save" /\ UNCHANGED <<upStatus, memeRecord>>
     ELSE /\ upPc' = "done"
          /\ upStatus' = SuccessStatus
          /\ memeRecord' = (variant = "part_002" /\ saved)
  /\ UNCHANGED <<upFile, notUploadVars>>

\* await meme.save() settles
SaveSettles(ok) ==
  /\ upPc = "save"
  /\ ops' = ops \cup {"record_write"}
  /\ memeRecord' = ok
  /\ upPc' = "done"
  /\ upStatus' = IF ok THEN SuccessStatus ELSE 500
  /\ UNCHANGED <<upFile, asset, notUploadVars>>

\* the next request to the route
NextUpload ==
  /\ upPc = "done"
  /\ upFile' = NoFile
  /\ upPc' = "idle"
  /\ upStatus' = 0
  /\ asset' = "none"
  /\ memeRecord' = FALSE
  /\ ops' = {}
  /\ UNCHANGED notUploadVars

UploadNext ==
  \/ ReceiveUpload
  \/ MulterSingle
  \/ UploadHandler
  \/ \E ok \in BOOLEAN, saved \in BOOLEAN : PutSettles(ok, saved)
  \/ \E ok \in BOOLEAN : SaveSettles(ok)
  \/ NextUpload

UploadSpec ==
  UploadInit /\ [][UploadNext]_vars

\* --------------------------------------------------------- the meme list
\* POST /upload and GET / of the routes that keep meme records: part_002
\* keeps them in a JSON file behind the module variable memes, the second
\* route of part_000 in a MongoDB collection.  Records are identified by the
\* order of their creation.
ListVariants ==
  {"part_002", "part_000_mongo"}
Range(sq) ==
  {sq[i] : i \in DOMAIN sq}
\* newest first, as find().sort({uploadDate: -1}) returns a collection
Newest(sq) ==
  [i \in 1..Len(sq) |-> sq[Len(sq) + 1 - i]]
\* loadMemes: the parsed file, or [] when reading or parsing throws
loadMemes(readOk) ==
  IF readOk THEN memesFile ELSE <<>>
\* saveMemes: the file after writeFileSync, which is left as it was when the
\* write throws (the error is logged and swallowed)
saveMemes(list, writeOk) ==
  IF writeOk THEN list ELSE memesFile

ListInit ==
  /\ variant \in ListVariants
  /\ NoServer
  /\ NoEnumeration
  /\ NoBalance
  /\ NoCall
  /\ NoJoin
  /\ NoUpload
  /\ memesFile = <<>>
  /\ memes = <<>>
  /\ listResp = <<>>
  /\ nextId = 1
  /\ memeAnswer = [op |-> "none", status |-> 0]
  /\ NoError
  /\ NoTracker
  /\ NoConn

\* part_002 POST /upload with an accepted file: put, then memes.unshift(meme)
\* and saveMemes(memes), then 200; a failed put answers 500
PostFile(putOk, writeOk) ==
  /\ variant = "part_002"
  /\ nextId <= MaxUploads
  /\ IF putOk
     THEN /\ memes' = <<nextId>> \o memes
          /\ memesFile' = saveMemes(memes', writeOk)
          /\ nextId' = nextId + 1
          /\ memeAnswer' = [op |-> "post", status |-> 200]
     ELSE /\ memeAnswer' = [op |-> "post", status |-> 500]
          /\ UNCHANGED <<memes, memesFile, nextId>>
  /\ UNCHANGED <<listResp, notListVars>>

\* part_002 GET /: memes = loadMemes(), answered with 200
GetFile(readOk) ==
  /\ variant = "part_002"
  /\ memes' = loadMemes(readOk)
  /\ listResp' = memes'
  /\ memeAnswer' = [op |-> "get", status |-> 200]
  /\ UNCHANGED <<memesFile, nextId, notListVars>>

\* part_000 POST /upload with an accepted file: put, then await meme.save(),
\* then 200; either failure answers 500
PostMongo(putOk, saveOk) ==
  /\ variant = "part_000_mongo"
  /\ nextId <= MaxUploads
  /\ IF putOk /\ saveOk
     THEN /\ memesFile' = Append(memesFile, nextId)
          /\ nextId' = nextId + 1
          /\ memeAnswer' = [op |-> "post", status |-> 200]
     ELSE /\ memeAnswer' = [op |-> "post", status |-> 500]
          /\ UNCHANGED <<memesFile, nextId>>
  /\ UNCHANGED <<memes, listResp, notListVars>>

\* part_000 GET /: Meme.find().sort({uploadDate: -1}), or 500 when it throws
GetMongo(findOk) ==
  /\ variant = "part_000_mongo"
  /\ IF findOk
     THEN /\ listResp' = Newest(memesFile)
          /\ memeAnswer' = [op |-> "get", status |-> 200]
     ELSE /\ memeAnswer' = [op |-> "get", status |-> 500]
          /\ UNCHANGED listResp
  /\ UNCHANGED <<memesFile, memes, nextId, notListVars>>

ListNext ==
  \/ \E putOk \in BOOLEAN, writeOk \in BOOLEAN : PostFile(putOk, writeOk)
  \/ \E readOk \in BOOLEAN : GetFile(readOk)
  \/ \E putOk \in BOOLEAN, saveOk \in BOOLEAN : PostMongo(putOk, saveOk)
  \/ \E findOk \in BOOLEAN : GetMongo(findOk)

ListSpec ==
  ListInit /\ [][ListNext]_vars

\* ------------------------------------------------------ error responses
\* The catch blocks of the stats handlers and the error-handling middleware:
\* what they put in the body of a 500 answer, given NODE_ENV and the error.
ErrorVariants ==
  {"src_server", "root_server", "dist_server", "errorHandler"}
NodeEnvs ==
  {"production", "development", "staging"}
\* messages of errors the handlers throw or receive
ErrorMessages ==
  {"Invalid total supply", "Founder balance exceeds total supply",
   "Burn wallet balance exceeds total supply", "Supply mismatch",
   "Unable to connect to any Solana RPC endpoint", "timeout of 10000ms exceeded"}
\* the body of the error answer: its error field and the field that carries
\* detail (message in src/src/server.ts, details in src/server.ts)
ErrorBody(env, msg) ==
  IF variant = "src_server"
  THEN [error |-> "Failed to fetch token stats", detail |-> msg]
  ELSE IF variant = "root_server"
  THEN [error |-> "Failed to fetch token stats",
        detail |-> IF env = "development" THEN msg ELSE NoText]
  ELSE IF variant = "dist_server"
  THEN [error |-> "Failed to fetch token stats", detail |-> NoText]
  ELSE [error |-> IF env = "production" THEN "Internal server error" ELSE msg,
        detail |-> NoText]

ErrorInit ==
  /\ variant \in ErrorVariants
  /\ NoServer
  /\ NoEnumeration
  /\ NoBalance
  /\ NoCall
  /\ NoJoin
  /\ NoUpload
  /\ NoList
  /\ nodeEnv \in NodeEnvs
  /\ thrown = NoText
  /\ errPc = "idle"
  /\ errorBody = NoBody
  /\ NoTracker
  /\ NoConn

\* an error with message msg is thrown inside the handler (or passed to
\* next for the middleware)
ThrowError(msg) ==
  /\ errPc = "idle"
  /\ thrown' = msg
  /\ errPc' = "thrown"
  /\ UNCHANGED <<nodeEnv, errorBody, notErrorVars>>

\* the catch block (or the middleware) answers 500
AnswerError ==
  /\ errPc = "thrown"
  /\ errorBody' = ErrorBody(nodeEnv, thrown)
  /\ errPc' = "answered"
  /\ UNCHANGED <<nodeEnv, thrown, notErrorVars>>

\* the next request
ErrorDone ==
  /\ errPc = "answered"
  /\ thrown' = NoText
  /\ errorBody' = NoBody
  /\ errPc' = "idle"
  /\ UNCHANGED <<nodeEnv, notErrorVars>>

ErrorNext ==
  \/ \E msg \in ErrorMessages : ThrowError(msg)
  \/ AnswerError
  \/ ErrorDone

ErrorSpec ==
  ErrorInit /\ [][ErrorNext]_vars

\* ------------------------------------------------- fetchTokenHolders
\* fetchTokenHolders of src/src/utils/format.ts: one request through
\* axiosWithRetry (retry: 2, retryDelay: 1100, timeout: 15000), whose
\* interceptor decrements config.retry and rejects below 0; the catch block
\* waits 1.1 s and calls fetchTokenHolders again when the error is a 429, and
\* returns 0 for every other error.
HolderFailures ==
  {"429", "500", "timeout"}

TrackerInit ==
  /\ variant = "format_ts"
  /\ NoServer
  /\ NoEnumeration
  /\ NoBalance
  /\ NoCall
  /\ NoJoin
  /\ NoUpload
  /\ NoList
  /\ NoError
  /\ holdersCalls = 0
  /\ holdersRetry = 0
  /\ holdersPc = "idle"
  /\ holdersFailure = "none"
  /\ holdersReturn = Pending
  /\ NoConn

\* the stats handler calls fetchTokenHolders(tokenAddress)
CallFetchTokenHolders ==
  /\ holdersPc \in {"idle", "returned"}
  /\ holdersCalls' = 1
  /\ holdersRetry' = HoldersRetry
  /\ holdersPc' = "request"
  /\ holdersFailure' = "none"
  /\ holdersReturn' = Pending
  /\ UNCHANGED notTrackerVars

\* the request is answered: the length of the array, or 0 for another format
HoldersAnswered(isArray, n) ==
  /\ holdersPc = "request"
  /\ holdersReturn' = IF isArray THEN n ELSE 0
  /\ holdersPc' = "returned"
  /\ UNCHANGED <<holdersCalls, holdersRetry, holdersFailure, notTrackerVars>>

\* an attempt fails: the interceptor retries after retryDelay while
\* config.retry stays at or above 0, else the error reaches the catch block
HoldersAttemptFails(kind) ==
  /\ holdersPc = "request"
  /\ holdersFailure' = kind
  /\ holdersRetry' = holdersRetry - 1
  /\ IF holdersRetry' >= 0
     THEN holdersPc' = "backoff" /\ UNCHANGED holdersReturn
     ELSE IF kind = "429"
     THEN holdersPc' = "delay" /\ UNCHANGED holdersReturn
     ELSE holdersPc' = "returned" /\ holdersReturn' = 0
  /\ UNCHANGED <<holdersCalls, notTrackerVars>>

\* retryDelay has passed: axiosWithRetry(config) sends the request again
HoldersBackoffElapses ==
  /\ holdersPc = "backoff"
  /\ holdersPc' = "request"
  /\ UNCHANGED <<holdersCalls, holdersRetry, holdersFailure, holdersReturn, notTrackerVars>>

\* the 1.1 s of the catch block have passed: return fetchTokenHolders(...)
HoldersDelayElapses ==
  /\ holdersPc = "delay"
  /\ holdersCalls < MaxCalls
  /\ holdersCalls' = holdersCalls + 1
  /\ holdersRetry' = HoldersRetry
  /\ holdersPc' = "request"
  /\ UNCHANGED <<holdersFailure, holdersReturn, notTrackerVars>>

TrackerNext ==
  \/ CallFetchTokenHolders
  \/ \E isArray \in BOOLEAN, n \in HolderCounts : HoldersAnswered(isArray, n)
  \/ \E kind \in HolderFailures : HoldersAttemptFails(kind)
  \/ HoldersBackoffElapses
  \/ HoldersDelayElapses

TrackerSpec ==
  TrackerInit /\ [][TrackerNext]_vars

\* ------------------------------------------- getWorkingConnection, stepwise
\* getWorkingConnection probe by probe.  part_010, part_012 and
\* src/src/utils/format.ts walk RPC_ENDPOINTS in list order with a fresh
\* Connection each; dist/server.js first tests the remembered
\* solanaConnection and then walks the list from currentRpcIndex + 1.  A
\* probe is await connection.getSlot(), raced against a 10 s timer in
\* part_010 and format.ts; a probe that times out counts as failed.
ConnVariants ==
  {"part_010", "part_012", "format_ts", "dist_server"}
OrderedVariants ==
  {"part_010", "part_012", "format_ts"}
\* whether getSlot is raced against the 10 s timer
HasProbeTimeout ==
  variant \in {"part_010", "format_ts"}
\* how a probe can end: getSlot resolves, rejects, or never settles
ProbeOutcomes ==
  {"ok", "error", "silent"}
\* the endpoint of loop iteration i
LoopEndpoint(i) ==
  IF variant = "dist_server" THEN Rotated(currentRpcIndex, 1) ELSE i
\* where the loop goes after the probe of iteration i: out with the
\* connection, on to the next endpoint, or past the loop to the throw
AfterProbeGivesUp(i, ok) ==
  IF ok THEN "returned" ELSE "thrown"
AfterProbe(i, ok) ==
  IF ok THEN "returned"
  ELSE IF i + 1 < NumRpcEndpoints THEN "loop"
  ELSE "thrown"

ConnInit ==
  /\ variant \in ConnVariants
  /\ NoServer
  /\ NoEnumeration
  /\ NoBalance
  /\ NoCall
  /\ NoJoin
  /\ NoUpload
  /\ NoList
  /\ NoError
  /\ NoTracker
  /\ probed = <<>>
  /\ loopIdx = 0
  /\ connPc = "idle"
  /\ connResult = Absent

\* a handler calls getWorkingConnection()
CallGetWorkingConnection ==
  /\ connPc \in {"idle", "returned", "thrown", "hung"}
  /\ probed' = <<>>
  /\ loopIdx' = 0
  /\ connResult' = Absent
  /\ connPc' = IF variant = "dist_server" /\ solanaConnection # Absent
               THEN "current" ELSE "loop"
  /\ UNCHANGED <<solanaConnection, currentRpcIndex, serverRestVars, holderVars>>
  /\ UNCHANGED notConnVarsButServer

\* dist/server.js: the test of the remembered connection settles, or never
\* does
TestCurrent(outcome) ==
  /\ connPc = "current"
  /\ IF outcome = "ok"
     THEN connPc' = "returned" /\ connResult' = solanaConnection
     ELSE IF outcome = "error"
     THEN connPc' = "loop" /\ UNCHANGED connResult
     ELSE connPc' = "hung" /\ UNCHANGED connResult
  /\ UNCHANGED <<probed, loopIdx>>
  /\ UNCHANGED <<solanaConnection, currentRpcIndex, serverRestVars, holderVars>>
  /\ UNCHANGED notConnVarsButServer

\* one iteration of the loop: the probe of its endpoint resolves, rejects or
\* runs into the timer; without a timer a silent endpoint leaves the call
\* waiting for ever
ProbeEndpoint(outcome) ==
  /\ connPc = "loop"
  /\ LET e == LoopEndpoint(loopIdx)
         ok == outcome = "ok"
     IN /\ probed' = Append(probed, [endpoint |-> e, outcome |-> outcome])
        /\ currentRpcIndex' = IF variant = "dist_server" THEN e ELSE currentRpcIndex
        /\ solanaConnection' = IF variant = "dist_server" /\ ok THEN e ELSE solanaConnection
        /\ connResult' = IF ok THEN e ELSE connResult
        /\ IF outcome = "silent" /\ ~HasProbeTimeout
           THEN connPc' = "hung" /\ UNCHANGED loopIdx
           ELSE /\ connPc' = AfterProbe(loopIdx, ok)
                /\ loopIdx' = IF ok THEN loopIdx ELSE loopIdx + 1
  /\ UNCHANGED <<serverRestVars, holderVars>>
  /\ UNCHANGED notConnVarsButServer

ConnNext ==
  \/ CallGetWorkingConnection
  \/ \E outcome \in ProbeOutcomes : TestCurrent(outcome)
  \/ \E outcome \in ProbeOutcomes : ProbeEndpoint(outcome)

ConnSpec ==
  ConnInit /\ [][ConnNext]_vars

\* ================================================================ claims

\* the cache holds a snapshot that the handler's own check treats as unexpired
SnapshotPresentUnexpired ==
  IF variant \in NodeCacheVariants
  THEN statsCache.data # NoData /\ now <= statsCache.t
  ELSE cache.data # NoData /\ now - cache.timestamp < TTL
CachedSnapshot ==
  IF variant \in NodeCacheVariants THEN statsCache.data ELSE cache.data
\* request r arrives in this step: it is answered at once or a handler starts
Arrives(r) ==
  /\ FreeSlot(r)
  /\ (req'[r].pc # "idle" \/ lastResp'.req = r)
\* every endpoint of getTokenSupply rejects
AllEndpointsFail ==
  [i \in 1..NumSupplyEndpoints |-> Fail]
Burned(s) ==
  IF variant = "src_server" THEN s.toBeBurnedTokens ELSE s.burnedTokens
Conserves(s) ==
  Abs(s.founderBalance + Burned(s) + s.circulatingSupply - s.totalSupply) <= 1

\* C1: single-flight - at any time at most one request has launched the
\* upstream fetches of a refresh cycle; requests arriving meanwhile start none.
C1_SingleFlight ==
  Cardinality({r \in Reqs : req[r].calls # {}}) <= 1

\* C2: cache hit path - a request that arrives while the cache holds a present,
\* unexpired snapshot is answered in the same step with status 200 from that
\* snapshot, and issues no external call (no handler is left running for it).
C2_CacheHitNoExternalCall ==
  [][\A r \in Reqs :
       (SnapshotPresentUnexpired /\ Arrives(r)) =>
         /\ lastResp'.req = r
         /\ lastResp'.status = 200
         /\ lastResp'.cached
         /\ lastResp'.stats = CachedSnapshot
         /\ lastResp'.calls = {}
         /\ req'[r].pc = "idle"
         /\ req'[r].calls = {}]_vars
\* a request has been answered from the cache without any external call
C2_Witness ==
  /\ lastResp.req # 0
  /\ lastResp.status = 200
  /\ lastResp.cached
  /\ lastResp.error = NoText
  /\ lastResp.calls = {}
  /\ lastResp.stats = CachedSnapshot

\* C3: total failure - when every source of a refresh fails and no snapshot was
\* ever cached, the answer has an error status (never 200 with a snapshot made
\* of defaults).
C3_TotalFailureIsError ==
  [][\A r \in Reqs :
       (/\ lastStored = NoData
        /\ \/ JoinPart010Out(r, Fail, Fail, Fail)
           \/ JoinPart011Out(r, Fail, Fail, Fail, Fail, Fail)
           \/ (req[r].supply = 0 /\ JoinSrcOut(r, Fail, Fail, Fail, Fail))
           \/ JoinDistOut(r, Fail, Fail, Fail)
           \/ ConnectOut(r, {}))
       => lastResp'.status >= 500]_vars

\* C4: stale serve - an answer that reports a failed refresh while a snapshot
\* was cached earlier has status 200 and carries that earlier snapshot.
C4_StaleServe ==
  (lastResp.req # 0 /\ lastResp.error # NoText /\ lastStored # NoData) =>
    (lastResp.status = 200 /\ lastResp.stats = lastStored)

C6_ViolationIsAdvisory ==
  [][\A r \in Reqs : \A p \in Outcome(Prices), f \in Amounts, b \in Amounts,
        h \in Outcome(HolderCounts) :
       (/\ JoinSrcOut(r, p, f, b, h)
        /\ req[r].supply > 0
        /\ f <= req[r].supply
        /\ b <= req[r].supply
        /\ Abs(f + b + Max(0, req[r].supply - f - b) - req[r].supply) > 1)
       => (lastResp'.status = 200 /\ statsCache'.data = lastResp'.stats)]_vars

\* C7: per-source isolation - a refresh in which exactly one fetch fails and
\* the others succeed is not answered with an error status.
C7_SingleFailureNotFatal ==
  [][\A r \in Reqs : \A p \in Prices, s \in Amounts, f \in Amounts, b \in Amounts,
        h \in HolderCounts :
       (\/ JoinDistOut(r, Fail, f, h)
        \/ JoinDistOut(r, s, Fail, h)
        \/ JoinDistOut(r, s, f, Fail)
        \/ JoinPart010Out(r, Fail, h, s)
        \/ JoinPart010Out(r, p, Fail, s)
        \/ JoinPart010Out(r, p, h, Fail)
        \/ JoinPart011Out(r, Fail, s, f, b, h)
        \/ JoinPart011Out(r, p, Fail, f, b, h)
        \/ JoinPart011Out(r, p, s, Fail, b, h)
        \/ JoinPart011Out(r, p, s, f, Fail, h)
        \/ JoinPart011Out(r, p, s, f, b, Fail))
       => lastResp'.status < 500]_vars

\* C8: price fallback with history - when only the price fetch of a refresh
\* fails and a snapshot was cached earlier, the answer is a 200 whose price is
\* the earlier snapshot's price.  (No response body of the code has a field
\* that marks a degraded price, so that half of the claim has nothing to
\* refer to.)
C8_PriceFallsBackToPrevious ==
  [][\A r \in Reqs : \A s \in Amounts, f \in Amounts, b \in Amounts, h \in HolderCounts :
       (/\ lastStored # NoData
        /\ \/ JoinPart010Out(r, Fail, h, s)
           \/ (req[r].supply > 0 /\ JoinSrcOut(r, Fail, f, b, h)))
       => /\ lastResp'.status = 200
          /\ lastResp'.stats.price = lastStored.price]_vars

\* C9: price fallback without history - when only the price fetch fails, the
\* supply is positive, the balances do not exceed it and no snapshot was ever
\* cached, the answer is a 200 with price 0 and zero price-derived values, and
\* that snapshot is cached.
C9_PriceDefaultsToZero ==
  [][\A r \in Reqs : \A f \in Amounts, b \in Amounts, h \in HolderCounts :
       (/\ lastStored = NoData
        /\ req[r].supply > 0
        /\ f <= req[r].supply
        /\ b <= req[r].supply
        /\ JoinSrcOut(r, Fail, f, b, h))
       => /\ lastResp'.status = 200
          /\ lastResp'.stats.price = 0
          /\ lastResp'.stats.marketCap = 0
          /\ lastResp'.stats.totalValue = 0
          /\ lastResp'.stats.founderValue = 0
          /\ lastResp'.stats.toBeBurnedValue = 0
          /\ statsCache'.data = lastResp'.stats]_vars

\* C10: supply fallback - when every RPC endpoint fails, getTokenSupply yields
\* the totalSupply of the last snapshot ever stored, and 0 only if none was.
C10_SupplyFallsBackToLastStored ==
  [][\A r \in Reqs :
       SupplySettleOut(r, AllEndpointsFail) =>
         req'[r].supply = IF lastStored # NoData THEN lastStored.totalSupply ELSE 0]_vars

\* C11: idempotence within the TTL - two answers with status 200 sent one right
\* after the other, with no time passing in between and while the cache holds
\* an unexpired snapshot, carry the same field values.
C11_IdempotentWithinTTL ==
  [][(/\ lastResp.req # 0
      /\ lastResp.status = 200
      /\ SnapshotPresentUnexpired
      /\ lastResp'.req # 0
      /\ lastResp'.status = 200)
     => lastResp'.stats = lastResp.stats]_vars

\* C12: cacheAge - the cacheAge of every cache-hit answer is the time of the
\* request minus the time the snapshot was stored (the snapshot's lastUpdated,
\* written when it is stored).
C12_CacheAgeIsAge ==
  (lastResp.req # 0 /\ lastResp.cached /\ lastResp.error = NoText) =>
    lastResp.cacheAge = now - lastResp.stats.lastUpdated

\* C13: stamping - the cache entry's time stamp is the time its snapshot was
\* stored (the snapshot's lastUpdated): for node-cache the expiry time less
\* stdTTL, for the cache object cache.timestamp.
C13_StampedAtStore ==
  /\ (variant \in NodeCacheVariants /\ statsCache.data # NoData) =>
       statsCache.t - stdTTL = statsCache.data.lastUpdated
  /\ (variant \notin NodeCacheVariants /\ cache.data # NoData) =>
       cache.timestamp = cache.data.lastUpdated

\* time since the cache entry was stamped, and the time-to-live it is held to
EntryAge ==
  IF variant \in NodeCacheVariants THEN now - (statsCache.t - stdTTL)
  ELSE now - cache.timestamp
EntryTtl ==
  IF variant \in NodeCacheVariants THEN stdTTL ELSE TTL

\* C14: expiry rule - a request that arrives while the cache holds a snapshot
\* is answered from the cache exactly when now - fetchedAt <= ttl; at
\* now - fetchedAt = ttl it is still a hit.
C14_ExpiredOnlyPastTtl ==
  [][\A r \in Reqs :
       (Arrives(r) /\ CachedSnapshot # NoData) =>
         ((lastResp'.req = r /\ lastResp'.cached /\ lastResp'.stats = CachedSnapshot)
            <=> EntryAge <= EntryTtl)]_vars

\* C15: cache frame - while the cache holds a snapshot, a request answered
\* from the cache and a refresh all of whose fetches fail leave the snapshot
\* and its time stamp unchanged.
C15_CacheFrame ==
  [][\A r \in Reqs :
       (/\ CachedSnapshot # NoData
        /\ \/ (Arrives(r) /\ lastResp'.req = r /\ lastResp'.cached)
           \/ JoinPart010Out(r, Fail, Fail, Fail)
           \/ JoinPart011Out(r, Fail, Fail, Fail, Fail, Fail)
           \/ (req[r].supply = 0 /\ JoinSrcOut(r, Fail, Fail, Fail, Fail))
           \/ JoinDistOut(r, Fail, Fail, Fail)
           \/ ConnectOut(r, {}))
       => UNCHANGED <<statsCache, cache>>]_vars

\* C16: no half-written snapshot - every step that changes the cache slot is
\* the store of one refresh, which writes the snapshot it answers together
\* with its own time stamp (for the cache object the time its request
\* arrived, for node-cache the expiry time counted from the store); no state
\* pairs the data of one refresh with the time stamp of another.
C16_NoTornSnapshot ==
  [][/\ cache' # cache =>
          \E r \in Reqs :
            /\ req[r].pc = "fetching"
            /\ lastResp'.req = r
            /\ cache' = [data |-> lastResp'.stats, timestamp |-> req[r].now0]
     /\ (statsCache' # statsCache /\ statsCache'.data # NoData) =>
          \E r \in Reqs :
            /\ req[r].pc = "fetching"
            /\ lastResp'.req = r
            /\ statsCache' = [data |-> lastResp'.stats, t |-> now + stdTTL]]_vars
\* one refresh has stored its snapshot and time stamp into the cache object
\* while another refresh, started at a different time, is still in flight
C16_Witness ==
  /\ variant \notin NodeCacheVariants
  /\ lastResp.req # 0
  /\ ~lastResp.cached
  /\ cache.data = lastResp.stats
  /\ \E q \in Reqs : req[q].pc = "fetching" /\ req[q].now0 # cache.timestamp

\* the enumeration has returned without any page request having failed
EnumerationCompleted ==
  hpc = "done" /\ page # failAt
\* the owners of the service's accounts; those with a positive-amount account
OwnersOf(accts) ==
  {accts[i].owner : i \in DOMAIN accts}
PositiveOwnersOf(accts) ==
  {accts[i].owner : i \in {j \in DOMAIN accts : accts[j].amount > 0}}

C18_HolderCountIsPositiveOwners ==
  EnumerationCompleted => holdersResult = Cardinality(PositiveOwnersOf(upstream))

\* C19: termination - when a page request is answered with an empty page or
\* with fewer accounts than the page size, the enumeration ends in that step
\* (no further page is requested).
C19_StopsAtShortPage ==
  [][(/\ hpc = "paging"
      /\ page # failAt
      /\ requests' = requests + 1
      /\ Len(PageOf(upstream, page)) < limit)
     => hpc' = "done"]_vars

\* C20: holder enumeration failure - a refresh whose holder enumeration fails
\* (a page request failed) while its other fetches succeed with values that
\* pass the handler's checks still produces its snapshot: a fresh 200 answer
\* with holders = 0, stored in the cache.
C20_FailedEnumerationCountsZero ==
  [][\A r \in Reqs : \A p \in Prices, s \in Amounts, f \in Amounts, b \in Amounts :
       (\/ JoinDistOut(r, s, f, Fail)
        \/ JoinPart011Out(r, p, s, f, b, Fail)
        \/ (/\ ValidationError(OrElse(req[r].supply, 0), f, b) = NoText
            /\ JoinSrcOut(r, p, f, b, Fail)))
       => /\ lastResp'.req = r
          /\ lastResp'.status = 200
          /\ ~lastResp'.cached
          /\ lastResp'.stats.holders = 0
          /\ CachedSnapshot' = lastResp'.stats]_vars

\* a well-formed account whose data was fetched and parsed; its balance
GoodAccount(a) ==
  a.amount \in 0..MaxRaw /\ a.decimals \in 0..MaxDecimals /\ a.info = "parsed"
\* an account whose fetch or parse fails
BrokenAccount(a) ==
  \/ a.amount = Invalid /\ a.decimals \in 1..MaxDecimals
  \/ a.info # "parsed"
RECURSIVE SumGood(_, _)
SumGood(accts, i) ==
  IF i > Len(accts) THEN 0
  ELSE (IF GoodAccount(accts[i]) THEN UiAmount(accts[i].amount, accts[i].decimals) ELSE 0)
       + SumGood(accts, i + 1)

\* C21: balance resolution - when every token account of the wallet is well
\* formed (positive decimals; the decimals guard is the subject of C23) and
\* readable, the balance returned is the sum of amount / 10^decimals over all
\* the accounts of the wallet.
C21_BalanceIsSumOfAllAccounts ==
  (/\ balancePc = "done"
   /\ \A i \in DOMAIN walletAccounts :
        GoodAccount(walletAccounts[i]) /\ walletAccounts[i].decimals > 0)
    => walletBalance.value = SumGood(walletAccounts, 1)

\* C22: per-account failure - when the fetch or parse of some account of the
\* wallet fails and the other accounts are well formed (positive decimals),
\* the balance returned is the sum over the other accounts.
C22_BadAccountIsSkipped ==
  (/\ balancePc = "done"
   /\ \A i \in DOMAIN walletAccounts :
        \/ GoodAccount(walletAccounts[i]) /\ walletAccounts[i].decimals > 0
        \/ BrokenAccount(walletAccounts[i])
   /\ \E i \in DOMAIN walletAccounts : BrokenAccount(walletAccounts[i]))
    => walletBalance.value = SumGood(walletAccounts, 1)

\* C23: decimals guard - with numeric amounts, the balance returned is the sum
\* over the accounts whose decimals are valid (0 included), each converted with
\* its own exponent, and every account with missing or out-of-range decimals
\* is rejected with a log entry.
C23_DecimalsGuard ==
  (/\ balancePc = "done"
   /\ \A i \in DOMAIN walletAccounts : walletAccounts[i].amount \in 1..MaxRaw)
    => /\ walletBalance.value = SumGood(walletAccounts, 1)
       /\ walletBalance.logs >=
            Cardinality({i \in DOMAIN walletAccounts :
                           walletAccounts[i].decimals \notin 0..MaxDecimals})

\* C24: derived fields - every snapshot produced by a refresh has
\* circulatingSupply = max(0, totalSupply - founderBalance - burned),
\* marketCap = circulatingSupply * price, totalValue = totalSupply * price,
\* founderValue = founderBalance * price, burned value = burned * price and,
\* where the snapshot has the field, burnRate = burned / totalSupply * 100.
C24_DerivedFields ==
  (variant \in NodeCacheVariants /\ lastResp.status = 200 /\ ~lastResp.cached) =>
    LET s == lastResp.stats
    IN /\ s.circulatingSupply = Max(0, s.totalSupply - s.founderBalance - Burned(s))
       /\ s.marketCap = s.circulatingSupply * s.price
       /\ s.totalValue = s.totalSupply * s.price
       /\ s.founderValue = s.founderBalance * s.price
       /\ (IF variant = "src_server" THEN s.toBeBurnedValue ELSE s.burnedValue)
            = Burned(s) * s.price
       /\ variant = "src_server" => s.burnRate = <<Burned(s) * 100, s.totalSupply>>

\* C25: bounded retry - a call whose every attempt failed and that was
\* rejected to the caller was attempted exactly once when it has no retry
\* setting, and with retry = n >= 1 at most n + 1 times, at most 3 times for
\* the configured n, with the fixed delay retryDelay (default 1000 ms) before
\* every retry.
C25_BoundedRetry ==
  (phase = "rejected" /\ variant \in {"root_server", "part_010"}) =>
    /\ config.retry = Absent => attempts = 1
    /\ config.retry >= 1 =>
         /\ attempts <= config.retry + 1
         /\ \A i \in DOMAIN waited :
              waited[i] = OrElse(config.retryDelay, DefaultRetryDelay)
    /\ config.retry = ConfiguredRetry => attempts <= 3

\* C26: retry scope - an attempt is followed by a retry only when its failure
\* is transient: HTTP 429, a timeout or a network error.
C26_RetryOnlyTransient ==
  [][(phase = "sending" /\ phase' = "backoff")
       => failure' \in {"429", "timeout", "network"}]_vars

\* C27: bounded response - no external call is still unanswered after its
\* time limit: an attempt the upstream never answers is abandoned by a timeout.
C27_CallsAreAbandoned ==
  ~overdue

\* C28: join before construct - no answer of a request is sent while one of
\* that request's fetches is still in flight.
C28_AnswerAfterAllSettled ==
  joinResp # "none" => \A f \in DOMAIN fetches : fetches[f] # "inflight"

\* C29: upload MIME validation - an upload whose content type the route's
\* filter does not accept is answered with a 4xx status, and no storage
\* operation is performed for it.
C29_NonImageRejected ==
  (upPc = "done" /\ upFile # NoFile /\ ~fileFilter(upFile))
    => (upStatus \in 400..499 /\ ops = {})

\* C30: upload size validation - an upload of an accepted type whose file is
\* longer than the configured limit is answered with a 4xx status and leaves
\* no stored asset and no meme record.
C30_OversizedRejected ==
  (upPc = "done" /\ upFile # NoFile /\ fileFilter(upFile) /\ upFile.size > fileSize)
    => (upStatus \in 400..499 /\ asset = "none" /\ ~memeRecord)

\* C31: upload records are created once and never lost - an upload answered
\* with success adds exactly one record to the backing store, and every
\* record a GET of the list returned is returned by every later GET.
C31_RecordsNeverLost ==
  [][/\ Range(listResp) \subseteq Range(listResp')
     /\ (memeAnswer'.op = "post" /\ memeAnswer'.status = 200 /\ nextId' # nextId)
          => (/\ Len(memesFile') = Len(memesFile) + 1
              /\ Range(memesFile') = Range(memesFile) \cup {nextId})]_vars

\* C32: no leak in production - when NODE_ENV is 'production' the body of an
\* error answer carries no internal error message: it is the same generic
\* text whichever error occurred.
C32_NoLeakInProduction ==
  (nodeEnv = "production" /\ errPc = "answered")
    => (errorBody.error \notin ErrorMessages /\ errorBody.detail = NoText)

\* C33: holders 429 handling - after a 429 fetchTokenHolders waits and retries
\* once: one holders fetch invokes it at most twice, and a second invocation
\* that ends in 429 returns 0.
C33_RetriesOnce ==
  holdersCalls <= 2

\* C34: ordered RPC failover - in the revisions that walk the list,
\* getWorkingConnection probes the endpoints in list order, returns the first
\* endpoint whose probe succeeds without probing a later one, and throws only
\* after every endpoint has been probed once and failed.
C34_OrderedFailover ==
  variant \in OrderedVariants =>
    /\ \A i \in DOMAIN probed :
         /\ probed[i].endpoint = i - 1
         /\ i < Len(probed) => probed[i].outcome # "ok"
    /\ connPc = "returned" =>
         /\ Len(probed) >= 1
         /\ probed[Len(probed)].outcome = "ok"
         /\ connResult = probed[Len(probed)].endpoint
    /\ connPc = "thrown" =>
         /\ Len(probed) = NumRpcEndpoints
         /\ \A i \in DOMAIN probed : probed[i].outcome # "ok"

\* the first endpoint fails and the second one is returned
C34_Witness ==
  /\ variant \in OrderedVariants
  /\ connPc = "returned"
  /\ Len(probed) = 2
  /\ connResult = 1

C36_TimestampMonotone ==
  [][cache'.timestamp >= cache.timestamp]_vars

\* C37: in the Helius-holders revision the price of a snapshot comes only
\* from the previously cached snapshot, so from an empty cache the price in
\* the cache and in every answer that carries a snapshot is 0.
C37_PriceStaysZero ==
  variant = "dist_server" =>
    /\ cache.data # NoData => cache.data.price = 0
    /\ lastResp.stats # NoData => lastResp.stats.price = 0
\* a second snapshot was built over a cached one and stored with price 0
C37_Witness ==
  /\ variant = "dist_server"
  /\ lastResp.status = 200
  /\ ~lastResp.cached
  /\ cache.data = lastResp.stats
  /\ cache.data.lastUpdated >= 1
  /\ cache.data.price = 0

\* the bounds the validating handler enforces on a snapshot
WithinBounds(s) ==
  /\ s.totalSupply > 0
  /\ s.founderBalance <= s.totalSupply
  /\ s.toBeBurnedTokens <= s.totalSupply
  /\ 0 <= s.circulatingSupply
  /\ s.circulatingSupply <= s.totalSupply
\* C38: validated snapshot bounds - in the validating revision every snapshot
\* cached or answered with status 200 has totalSupply > 0, founderBalance and
\* burn balance at most totalSupply and 0 <= circulatingSupply <= totalSupply;
\* a refresh ends either in 200 with the snapshot it cached, or (always when
\* the supply is not positive) in 500 with the cache left as it was.
C38_ValidatedBounds ==
  [][variant = "src_server" =>
      /\ statsCache'.data # NoData => WithinBounds(statsCache'.data)
      /\ lastResp'.status = 200 => WithinBounds(lastResp'.stats)
      /\ \A r \in Reqs :
           (req[r].pc = "fetching" /\ req'[r].pc = "idle") =>
             /\ lastResp'.status \in {200, 500}
             /\ OrElse(req[r].supply, 0) <= 0 => lastResp'.status = 500
             /\ lastResp'.status = 200 => statsCache'.data = lastResp'.stats
             /\ lastResp'.status = 500 => UNCHANGED statsCache]_vars
\* a refresh whose founder balance exceeds the supply was answered 500 while
\* the snapshot another refresh had stored stayed in the cache
C38_Witness ==
  /\ variant = "src_server"
  /\ lastResp.status = 500
  /\ lastResp.message = "Founder balance exceeds total supply"
  /\ statsCache.data # NoData

====
